---------------------------- MODULE Spec2Model ----------------------------
(***************************************************************************)
(* A state-machine model of the hush tree-walking evaluator                *)
(* (src/src/runtime/mod.rs).  The recursive evaluator is unfolded into an  *)
(* explicit continuation stack `kont`: one record per active invocation of *)
(* eval / eval_block / eval_statement / eval_expr / call, holding that     *)
(* invocation's local variables and the point it has reached.  `ret` is    *)
(* the Result handed from a finished invocation to its caller.             *)
(*                                                                         *)
(* Scaling.  Int is a two's-complement integer of IntBits bits (the        *)
(* program's is 64).  Float is modelled as an exact rational n/d, with     *)
(* d = 0 for the non-finite values (n = 1: +inf, n = -1: -inf, n = 0: NaN);*)
(* rounding and signed zeros are not modelled.                             *)
(***************************************************************************)
EXTENDS Integers, Sequences, FiniteSets, TLC

VARIABLES
    program,    \* the resolved program handed to Runtime::eval
    stack,      \* Runtime.stack: the frames, each a sequence of cell handles
    cells,      \* the slot cells, by handle
    heap,       \* the shared containers and function objects, by handle
    arguments,  \* Runtime.arguments: the pending-argument buffer
    kont,       \* the active invocations, innermost last
    ret,        \* the Result being returned to the innermost invocation
    status,     \* "init" | "running" | "ok" | "err" | "abort"
    result,     \* what Runtime::eval returned
    hostCalls,  \* number of times the host iterator has been invoked
    boundaryDirty \* history: some statement boundary saw a non-empty buffer

vars == <<program, stack, cells, heap, arguments, kont, ret, status, result,
          hostCalls, boundaryDirty>>

-----------------------------------------------------------------------------
(* Bounds of the model.                                                    *)

IntBits == 4
MaxStackDepth == 9
MaxOperand == 2
HostIterItems == 2

IntMin == -(2 ^ (IntBits - 1))
IntMax == (2 ^ (IntBits - 1)) - 1

-----------------------------------------------------------------------------
(* Option<T>: None is <<>>, Some(x) is <<x>>.                              *)

None == <<>>
Some(x) == <<x>>
IsSome(o) == Len(o) = 1
Unwrap(o) == o[1]

-----------------------------------------------------------------------------
(* Values.  Every value is a record of the same shape so that equality is  *)
(* total: t is the tag, n/d the numeric payload (or the handle of a shared *)
(* container or function), s the bytes of a string.                        *)

Abs(a) == IF a < 0 THEN -a ELSE a
Sign(a) == IF a < 0 THEN -1 ELSE IF a > 0 THEN 1 ELSE 0

RECURSIVE Gcd(_, _)
Gcd(a, b) == IF b = 0 THEN a ELSE Gcd(b, a % b)

\* Integer division truncating toward zero, as Rust's `/` on i64.
TruncDiv(a, b) == Sign(a) * Sign(b) * (Abs(a) \div Abs(b))
TruncRem(a, b) == a - b * TruncDiv(a, b)

ValueNil == [t |-> "Nil", n |-> 0, d |-> 1, s |-> ""]
ValueBool(b) == [t |-> "Bool", n |-> IF b THEN 1 ELSE 0, d |-> 1, s |-> ""]
ValueInt(i) == [t |-> "Int", n |-> i, d |-> 1, s |-> ""]
ValueByte(b) == [t |-> "Byte", n |-> b, d |-> 1, s |-> ""]
ValueString(str) == [t |-> "String", n |-> 0, d |-> 1, s |-> str]
ValueArray(h) == [t |-> "Array", n |-> h, d |-> 1, s |-> ""]
ValueDict(h) == [t |-> "Dict", n |-> h, d |-> 1, s |-> ""]
ValueFunction(h) == [t |-> "Function", n |-> h, d |-> 1, s |-> ""]

\* A float n/d in lowest terms with d > 0; d = 0 marks inf (n = 1 or -1) and NaN (n = 0).
ValueFloat(n, d) ==
    IF d = 0 THEN [t |-> "Float", n |-> Sign(n), d |-> 0, s |-> ""]
    ELSE LET g == Gcd(Abs(n), Abs(d))
         IN  [t |-> "Float", n |-> (Sign(d) * n) \div g, d |-> Abs(d) \div g, s |-> ""]

\* From<i64> for Float: the promotion of an integer.
FloatFromInt(i) == ValueFloat(i, 1)

IsNaN(f) == f.d = 0 /\ f.n = 0
IsInf(f) == f.d = 0 /\ f.n # 0
FloatNaN == ValueFloat(0, 0)

FloatNeg(f) == [f EXCEPT !.n = -f.n]

FloatAdd(a, b) ==
    IF IsNaN(a) \/ IsNaN(b) THEN FloatNaN
    ELSE IF IsInf(a) /\ IsInf(b) THEN (IF a.n = b.n THEN a ELSE FloatNaN)
    ELSE IF IsInf(a) THEN a
    ELSE IF IsInf(b) THEN b
    ELSE ValueFloat(a.n * b.d + b.n * a.d, a.d * b.d)

FloatSub(a, b) == FloatAdd(a, FloatNeg(b))

FloatMul(a, b) ==
    IF IsNaN(a) \/ IsNaN(b) THEN FloatNaN
    ELSE IF IsInf(a) \/ IsInf(b)
         THEN (IF a.n = 0 \/ b.n = 0 THEN FloatNaN ELSE ValueFloat(Sign(a.n) * Sign(b.n), 0))
    ELSE ValueFloat(a.n * b.n, a.d * b.d)

FloatDiv(a, b) ==
    IF IsNaN(a) \/ IsNaN(b) THEN FloatNaN
    ELSE IF IsInf(a) THEN (IF IsInf(b) THEN FloatNaN
                           ELSE ValueFloat(a.n * (IF b.n < 0 THEN -1 ELSE 1), 0))
    ELSE IF IsInf(b) THEN ValueFloat(0, 1)
    ELSE IF b.n = 0 THEN ValueFloat(Sign(a.n), 0)   \* x / 0.0 is inf, 0.0 / 0.0 is NaN
    ELSE ValueFloat(a.n * b.d, a.d * b.n)

\* fmod: the remainder has the sign of the dividend.
FloatRem(a, b) ==
    IF IsNaN(a) \/ IsNaN(b) \/ IsInf(a) THEN FloatNaN
    ELSE IF IsInf(b) THEN a
    ELSE IF b.n = 0 THEN FloatNaN
    ELSE LET q == TruncDiv(a.n * b.d, a.d * b.n)
         IN  ValueFloat(a.n * b.d - q * b.n * a.d, a.d * b.d)

IsNumeric(v) == v.t \in {"Int", "Float"}

\* i64::checked_add and friends: None when the result is not representable.
InRange(i) == IntMin <= i /\ i <= IntMax
checked_add(a, b) == IF InRange(a + b) THEN Some(a + b) ELSE None
checked_sub(a, b) == IF InRange(a - b) THEN Some(a - b) ELSE None
checked_mul(a, b) == IF InRange(a * b) THEN Some(a * b) ELSE None
checked_div(a, b) ==
    IF b = 0 \/ (a = IntMin /\ b = -1) THEN None ELSE Some(TruncDiv(a, b))
checked_rem(a, b) ==
    IF b = 0 \/ (a = IntMin /\ b = -1) THEN None ELSE Some(TruncRem(a, b))

CheckedOp(op, a, b) ==
    CASE op = "Plus" -> checked_add(a, b)
      [] op = "Minus" -> checked_sub(a, b)
      [] op = "Times" -> checked_mul(a, b)
      [] op = "Div" -> checked_div(a, b)
      [] op = "Mod" -> checked_rem(a, b)

FloatOp(op, a, b) ==
    CASE op = "Plus" -> FloatAdd(a, b)
      [] op = "Minus" -> FloatSub(a, b)
      [] op = "Times" -> FloatMul(a, b)
      [] op = "Div" -> FloatDiv(a, b)
      [] op = "Mod" -> FloatRem(a, b)

ArithOps == {"Plus", "Minus", "Times", "Div", "Mod"}

-----------------------------------------------------------------------------
(* Panics: a kind and the value it carries (Nil when the kind has none).   *)

Panic(kind, value) == [kind |-> kind, value |-> value]

\* The $err_int argument of each arith_operator! invocation.
ErrInt(op) ==
    IF op \in {"Div", "Mod"} THEN Panic("DivisionByZero", ValueNil)
    ELSE Panic("IntegerOverflow", ValueNil)

\* arith_operator!: Some(value) or the panic.
ArithResult(ok, value, panic) == [ok |-> ok, value |-> value, panic |-> panic]
ArithOk(v) == ArithResult(TRUE, v, Panic("", ValueNil))
ArithErr(p) == ArithResult(FALSE, ValueNil, p)

ArithIntInt(op, int1, int2) ==
    LET val == CheckedOp(op, int1, int2)
    IN  IF IsSome(val) THEN ArithOk(ValueInt(Unwrap(val))) ELSE ArithErr(ErrInt(op))

\* Both mixed patterns bind the same names and share one body:
\* $op_float(float, int.into()), whichever side the float stood on.
ArithMixed(op, left, right) ==
    LET float == IF left.t = "Float" THEN left ELSE right
        int == IF left.t = "Int" THEN left.n ELSE right.n
    IN  ArithOk(FloatOp(op, float, FloatFromInt(int)))

ArithInvalid(left, right) ==
    IF IsNumeric(left) THEN ArithErr(Panic("InvalidOperand", right))
    ELSE ArithErr(Panic("InvalidOperand", left))

arith_operator(op, left, right) ==
    IF left.t = "Int" /\ right.t = "Int" THEN ArithIntInt(op, left.n, right.n)
    ELSE IF (left.t = "Int" /\ right.t = "Float") \/ (left.t = "Float" /\ right.t = "Int")
         THEN ArithMixed(op, left, right)
    ELSE ArithInvalid(left, right)

-----------------------------------------------------------------------------
(* The slot stack (mem::Stack).  A frame is a contiguous span of cells;    *)
(* slot i of the current frame is the i-th cell of the innermost frame.    *)
(* A cell is addressed by a handle, so that a capture keeps it alive and   *)
(* shared after its frame is gone.                                         *)

RECURSIVE SumLen(_)
SumLen(frames) ==
    IF frames = <<>> THEN 0 ELSE Len(frames[1]) + SumLen(Tail(frames))

Depth(stk) == SumLen(stk)

StackCanExtend(stk, n) == Depth(stk) + n <= MaxStackDepth

\* extend(n): n default-initialized cells form the new innermost frame.
StackExtend(stk, cl, n) ==
    [stack |-> Append(stk, [i \in 1..n |-> Len(cl) + i]),
     cells |-> cl \o [i \in 1..n |-> ValueNil]]

\* shrink(n): pop the n cells of the innermost frame.
StackShrink(stk, n) == SubSeq(stk, 1, Len(stk) - 1)

InFrame(stk, slot_ix) == slot_ix + 1 <= Len(stk[Len(stk)])
SlotCell(stk, slot_ix) == stk[Len(stk)][slot_ix + 1]

StackFetch(stk, cl, slot_ix) == cl[SlotCell(stk, slot_ix)]
StackStore(stk, cl, slot_ix, value) == [cl EXCEPT ![SlotCell(stk, slot_ix)] = value]
StackCapture(stk, slot_ix) == SlotCell(stk, slot_ix)
StackPlace(stk, slot_ix, handle) == [stk EXCEPT ![Len(stk)][slot_ix + 1] = handle]

-----------------------------------------------------------------------------
(* Shared containers and function objects live in `heap`; a value of tag   *)
(* Array, Dict or Function carries the object's handle.                    *)

ObjArray(elems) == [k |-> "Array", elems |-> elems]
ObjDict(keys, vals) == [k |-> "Dict", keys |-> keys, vals |-> vals]
ObjHush(params, frame_info, body, context) ==
    [k |-> "Hush", params |-> params, frame_info |-> frame_info, body |-> body,
     context |-> context]
ObjRust(name) == [k |-> "Rust", name |-> name]

\* Array::index / Array::set: None when the index is not in 0 .. len - 1.
ArrayIndex(obj, ix) ==
    IF 0 <= ix /\ ix < Len(obj.elems) THEN Some(obj.elems[ix + 1]) ELSE None
ArraySet(obj, ix, value) ==
    IF 0 <= ix /\ ix < Len(obj.elems)
    THEN Some([obj EXCEPT !.elems[ix + 1] = value]) ELSE None

\* Position of a key in a dict (0 when absent); keys compare as values do.
RECURSIVE KeyPos(_, _, _)
KeyPos(keys, key, i) ==
    IF i > Len(keys) THEN 0
    ELSE IF keys[i] = key THEN i
    ELSE KeyPos(keys, key, i + 1)

DictGet(obj, key) ==
    LET p == KeyPos(obj.keys, key, 1)
    IN  IF p = 0 THEN None ELSE Some(obj.vals[p])
DictInsert(obj, key, value) ==
    LET p == KeyPos(obj.keys, key, 1)
    IN  IF p = 0 THEN ObjDict(Append(obj.keys, key), Append(obj.vals, value))
        ELSE [obj EXCEPT !.vals[p] = value]

-----------------------------------------------------------------------------
(* The resolved program tree (program::Expr, Literal, Statement, Lvalue).  *)

FrameInfo(slots, self_slot, captures) ==
    [slots |-> slots, self_slot |-> self_slot, captures |-> captures]
Cap(from, to) == [from |-> from, to |-> to]

LNil == [l |-> "Nil"]
LBool(b) == [l |-> "Bool", b |-> b]
LInt(i) == [l |-> "Int", int |-> i]
LFloat(n, d) == [l |-> "Float", n |-> n, d |-> d]
LByte(b) == [l |-> "Byte", byte |-> b]
LString(str) == [l |-> "String", string |-> str]
LArray(exprs) == [l |-> "Array", exprs |-> exprs]
LDict(exprs) == [l |-> "Dict", exprs |-> exprs]
LFunction(params, frame_info, body) ==
    [l |-> "Function", params |-> params, frame_info |-> frame_info, body |-> body]
LIdentifier(symbol) == [l |-> "Identifier", symbol |-> symbol]

EIdentifier(slot_ix) == [k |-> "Identifier", slot_ix |-> slot_ix]
ELiteral(literal) == [k |-> "Literal", literal |-> literal]
EUnaryOp(op, operand) == [k |-> "UnaryOp", op |-> op, operand |-> operand]
EBinaryOp(left, op, right) == [k |-> "BinaryOp", left |-> left, op |-> op, right |-> right]
EIf(condition, then, otherwise) ==
    [k |-> "If", condition |-> condition, then |-> then, otherwise |-> otherwise]
EAccess(object, field) == [k |-> "Access", object |-> object, field |-> field]
ECall(function, args) == [k |-> "Call", function |-> function, args |-> args]

LvIdentifier(slot_ix) == [k |-> "Identifier", slot_ix |-> slot_ix]
LvAccess(object, field) == [k |-> "Access", object |-> object, field |-> field]

SAssign(left, right) == [k |-> "Assign", left |-> left, right |-> right]
SReturn(expr) == [k |-> "Return", expr |-> expr]
SBreak == [k |-> "Break"]
SWhile(condition, block) == [k |-> "While", condition |-> condition, block |-> block]
SFor(slot_ix, expr, block) == [k |-> "For", slot_ix |-> slot_ix, expr |-> expr, block |-> block]
SExpr(expr) == [k |-> "Expr", expr |-> expr]

Program(root_slots, statements) == [root_slots |-> root_slots, statements |-> statements]

-----------------------------------------------------------------------------
(* Results and the continuation stack.                                     *)

NoPanic == Panic("", ValueNil)
RetNone == [st |-> "none", flow |-> "", value |-> ValueNil, obj |-> None, panic |-> NoPanic]
\* Ok((flow, pos, obj)) of eval_expr; Ok(flow) and Ok(value) of the others.
RetOk(flow, value, obj) ==
    [st |-> "ok", flow |-> flow, value |-> value, obj |-> obj, panic |-> NoPanic]
RetErr(panic) == [st |-> "err", flow |-> "", value |-> ValueNil, obj |-> None, panic |-> panic]
Regular(value) == RetOk("Regular", value, None)

Top == kont[Len(kont)]
Popped == SubSeq(kont, 1, Len(kont) - 1)
Replaced(frame) == [kont EXCEPT ![Len(kont)] = frame]
\* The innermost invocation moves on to `frame` and invokes `callee`.
Invoking(frame, callee) == Append(Replaced(frame), callee)

Running(h) == status = "running" /\ kont # <<>> /\ Top.h = h
\* The innermost invocation is at `pc`: entered, or handed the Ok of the
\* invocation it made.
At(pc) == Top.pc = pc /\ ret.st = (IF pc = "start" THEN "none" ELSE "ok")

FrameEval == [h |-> "eval", pc |-> "start"]
FrameBlock(block) == [h |-> "eval_block", pc |-> "start", block |-> block, next |-> 1,
                      value |-> ValueNil]
FrameStatement(statement) ==
    [h |-> "eval_statement", pc |-> "start", statement |-> statement,
     value |-> ValueNil, obj |-> ValueNil, iter |-> 0, depth0 |-> 0,
     calls |-> 0, seen |-> <<>>, bodies |-> 0]
FrameExpr(expr) ==
    [h |-> "eval_expr", pc |-> "start", expr |-> expr, left |-> ValueNil,
     obj |-> None, function |-> 0, ix |-> 0, acc |-> <<>>, depth0 |-> 0]
\* depth0, origin, nargs and argvals are history: the stack depth at entry, the
\* construct that made the call, and the call site's evaluated arguments.
FrameCall(obj, function, origin, argvals) ==
    [h |-> "call", pc |-> "start", obj |-> obj, function |-> function,
     depth0 |-> Depth(stack), origin |-> origin, argvals |-> argvals, slots |-> 0]

-----------------------------------------------------------------------------
(* The host side: lib::new() and the host callables it holds.  "fail"      *)
(* always faults, "argc" returns the number of argument slots it was given,*)
(* "next" is an iterator over Int(1) .. Int(HostIterItems).                *)

StdHeap ==
    <<ObjRust("fail"), ObjRust("argc"), ObjRust("next"),
      ObjDict(<<ValueString("fail"), ValueString("argc"), ValueString("next")>>,
              <<ValueFunction(1), ValueFunction(2), ValueFunction(3)>>)>>
StdValue == ValueDict(Len(StdHeap))

HostPanic == Panic("InvalidOperand", ValueNil)

IterDict(finished, value) ==
    ObjDict(<<ValueString("finished"), ValueString("value")>>, <<ValueBool(finished), value>>)

-----------------------------------------------------------------------------
(* Steps shared by all handlers.                                           *)

\* The innermost invocation returns r to its caller.
Return(r) == kont' = Popped /\ ret' = r
\* It moves on to `frame` and invokes `callee`.
Invoke(frame, callee) == kont' = Invoking(frame, callee) /\ ret' = RetNone
\* It returns Err(panic).
Raise(panic) == kont' = kont /\ ret' = RetErr(panic)
\* The process dies of a Rust panic!/overflow check/index check: no Result.
Abort ==
    /\ status' = "abort"
    /\ kont' = <<>>
    /\ ret' = RetNone
    /\ UNCHANGED <<program, stack, cells, heap, arguments, result, hostCalls, boundaryDirty>>

NoResult == [value |-> ValueNil, panic |-> NoPanic]

\* `?`: an invocation handed an Err returns it at once, doing nothing else.
RecoverErr ==
    /\ status = "running"
    /\ ret.st = "err"
    /\ Top.h # "eval"
    /\ kont' = Popped
    /\ ret' = RetOk("Regular", ValueNil, None)
    /\ UNCHANGED <<program, stack, cells, heap, arguments, status, result,
                   hostCalls, boundaryDirty>>
PropagateErr ==
    /\ status = "running"
    /\ ret.st = "err"
    /\ Top.h # "eval"
    /\ kont' = Popped
    /\ UNCHANGED <<program, stack, cells, heap, arguments, ret, status, result,
                   hostCalls, boundaryDirty>>

-----------------------------------------------------------------------------
(* Runtime::eval                                                           *)

EvalStart ==
    /\ Running("eval") /\ At("start")
    /\ IF ~StackCanExtend(stack, program.root_slots)
       THEN /\ status' = "err"
            /\ result' = [value |-> ValueNil, panic |-> Panic("StackOverflow", ValueNil)]
            /\ kont' = <<>>
            /\ UNCHANGED <<stack, cells, heap, ret>>
       ELSE LET ext == StackExtend(stack, cells, program.root_slots)
            IN  /\ stack' = ext.stack
                /\ heap' = StdHeap
                /\ cells' = StackStore(ext.stack, ext.cells, 0, StdValue)
                /\ Invoke([Top EXCEPT !.pc = "block"], FrameBlock(program.statements))
                /\ UNCHANGED <<status, result>>
    /\ UNCHANGED <<program, arguments, hostCalls, boundaryDirty>>

EvalFinish ==
    /\ Running("eval") /\ At("block")
    /\ IF ret.flow = "Regular"
       THEN /\ stack' = StackShrink(stack, program.root_slots)
            /\ status' = "ok"
            /\ result' = [value |-> ret.value, panic |-> NoPanic]
            /\ kont' = <<>>
            /\ ret' = RetNone
            /\ UNCHANGED <<program, cells, heap, arguments, hostCalls, boundaryDirty>>
       ELSE Abort   \* panic!("invalid flow in root state")

EvalFail ==
    /\ Running("eval") /\ ret.st = "err"
    /\ status' = "err"
    /\ result' = [value |-> ValueNil, panic |-> ret.panic]
    /\ kont' = <<>>
    /\ ret' = RetNone
    /\ UNCHANGED <<program, stack, cells, heap, arguments, hostCalls, boundaryDirty>>

-----------------------------------------------------------------------------
(* Runtime::eval_block                                                     *)

\* Flow::Regular(val) => value = val: the block's value is that of the last
\* statement that returned, Value::default() before any has.
ValueKept(returned, val, value) == value
LastValue(returned, val, value) == IF returned THEN val ELSE value

EvalBlock ==
    /\ Running("eval_block")
    /\ At("start") \/ At("statement")
    /\ LET f == Top
           returned == f.pc = "statement"
       IN  /\ IF returned /\ ret.flow # "Regular"
              THEN Return(RetOk(ret.flow, ret.value, None))
              ELSE LET value == LastValue(returned, ret.value, f.value)
                   IN  IF f.next <= Len(f.block)
                       THEN Invoke([f EXCEPT !.pc = "statement", !.next = f.next + 1,
                                             !.value = value],
                                   FrameStatement(f.block[f.next]))
                       ELSE Return(Regular(value))
           /\ boundaryDirty' =
                (boundaryDirty \/
                 (arguments # <<>> /\ (returned \/ f.next <= Len(f.block))))
    /\ UNCHANGED <<program, stack, cells, heap, arguments, status, result, hostCalls>>

-----------------------------------------------------------------------------
(* Runtime::eval_expr and Runtime::eval_literal                            *)

InExpr(k) == Running("eval_expr") /\ Top.expr.k = k /\ ret.st # "err"
InLiteral(ls) == InExpr("Literal") /\ Top.expr.literal.l \in ls

\* A non-Regular flow of a sub-expression leaves the expression at once.
PassFlow == Return(RetOk(ret.flow, ret.value, None))

Alloc(obj) == Append(heap, obj)
NewHandle == Len(heap) + 1

Quiet == UNCHANGED <<program, stack, cells, heap, arguments, status, result,
                     hostCalls, boundaryDirty>>

EvalExprIdentifier ==
    /\ InExpr("Identifier")
    /\ Return(Regular(StackFetch(stack, cells, Top.expr.slot_ix)))
    /\ Quiet

LiteralValue(literal) ==
    CASE literal.l = "Nil" -> ValueNil
      [] literal.l = "Bool" -> ValueBool(literal.b)
      [] literal.l = "Int" -> ValueInt(literal.int)
      [] literal.l = "Float" -> ValueFloat(literal.n, literal.d)
      [] literal.l = "Byte" -> ValueByte(literal.byte)
      [] literal.l = "String" -> ValueString(literal.string)
      [] literal.l = "Identifier" -> ValueString(literal.symbol)

EvalLiteralScalar ==
    /\ InLiteral({"Nil", "Bool", "Int", "Float", "Byte", "String", "Identifier"})
    /\ Return(Regular(LiteralValue(Top.expr.literal)))
    /\ Quiet

\* Array and Dict literals: the elements left to right; `acc` is the vector (or
\* the key and value vectors) built so far, `ix` the element being evaluated.
EvalLiteralArray ==
    /\ InLiteral({"Array"})
    /\ LET f == Top
           exprs == f.expr.literal.exprs
           array == IF f.pc = "start" THEN <<>> ELSE Append(f.acc, ret.value)
       IN  IF f.pc = "elem" /\ ret.flow # "Regular"
           THEN PassFlow /\ UNCHANGED heap
           ELSE IF Len(array) < Len(exprs)
                THEN /\ Invoke([f EXCEPT !.pc = "elem", !.acc = array],
                               FrameExpr(exprs[Len(array) + 1]))
                     /\ UNCHANGED heap
                ELSE /\ heap' = Alloc(ObjArray(array))
                     /\ Return(Regular(ValueArray(NewHandle)))
    /\ UNCHANGED <<program, stack, cells, arguments, status, result, hostCalls, boundaryDirty>>

EvalLiteralDict ==
    /\ InLiteral({"Dict"})
    /\ LET f == Top
           exprs == f.expr.literal.exprs
           key == ValueString(exprs[f.ix][1])
           dict == IF f.pc = "start" THEN ObjDict(<<>>, <<>>)
                   ELSE DictInsert(f.acc, key, ret.value)
           done == IF f.pc = "start" THEN 0 ELSE f.ix
       IN  IF f.pc = "elem" /\ ret.flow # "Regular"
           THEN PassFlow /\ UNCHANGED heap
           ELSE IF done < Len(exprs)
                THEN /\ Invoke([f EXCEPT !.pc = "elem", !.acc = dict, !.ix = done + 1],
                               FrameExpr(exprs[done + 1][2]))
                     /\ UNCHANGED heap
                ELSE /\ heap' = Alloc(dict)
                     /\ Return(Regular(ValueDict(NewHandle)))
    /\ UNCHANGED <<program, stack, cells, arguments, status, result, hostCalls, boundaryDirty>>

\* The captures of a function literal: a handle to the cell of each `from`
\* slot of the frame that evaluates the literal, paired with its `to` slot.
CaptureContext(stk, captures) ==
    [i \in 1..Len(captures) |-> <<StackCapture(stk, captures[i].from), captures[i].to>>]

EvalLiteralFunction ==
    /\ InLiteral({"Function"})
    /\ LET literal == Top.expr.literal
           context == CaptureContext(stack, literal.frame_info.captures)
       IN  /\ heap' = Alloc(ObjHush(literal.params, literal.frame_info, literal.body, context))
           /\ Return(Regular(ValueFunction(NewHandle)))
    /\ UNCHANGED <<program, stack, cells, arguments, status, result, hostCalls, boundaryDirty>>

EvalExprUnaryOp ==
    /\ InExpr("UnaryOp")
    /\ LET f == Top
           op == f.expr.op
           value == ret.value
       IN  IF f.pc = "start"
           THEN Invoke([f EXCEPT !.pc = "operand"], FrameExpr(f.expr.operand)) /\ Quiet
           ELSE IF ret.flow # "Regular" THEN PassFlow /\ Quiet
           ELSE IF op = "Minus" /\ value.t = "Float"
                THEN Return(Regular(FloatNeg(value))) /\ Quiet
           ELSE IF op = "Minus" /\ value.t = "Int"
                THEN IF value.n = IntMin
                     \* `-i` overflows: a build with overflow checks dies, one
                     \* without them wraps.
                     THEN \E overflow_checks \in BOOLEAN :
                             IF overflow_checks THEN Abort
                             ELSE Return(Regular(ValueInt(IntMin))) /\ Quiet
                     ELSE Return(Regular(ValueInt(-value.n))) /\ Quiet
           ELSE IF op = "Not" /\ value.t = "Bool"
                THEN Return(Regular(ValueBool(value.n = 0))) /\ Quiet
           ELSE Raise(Panic("InvalidOperand", value)) /\ Quiet

\* The value of `left op right` for the operators that are not short-circuit.
BinaryOpResult(op, left, right) ==
    IF op \in ArithOps THEN arith_operator(op, left, right)
    ELSE IF op = "Equals" THEN ArithOk(ValueBool(left = right))
    ELSE IF op = "NotEquals" THEN ArithOk(ValueBool(left # right))
    ELSE IF op = "Concat" /\ left.t = "String" /\ right.t = "String"
         THEN ArithOk(ValueString(left.s \o right.s))
    ELSE ArithErr(Panic("InvalidOperand", left))

\* (Value::Bool(false), And) and (Value::Bool(true), Or): the left operand decides.
NeverShortCircuit(op, left) == FALSE
ShortCircuit(op, left) ==
    \/ left = ValueBool(FALSE) /\ op = "And"
    \/ left = ValueBool(TRUE) /\ op = "Or"

EvalExprBinaryOp ==
    /\ InExpr("BinaryOp")
    /\ LET f == Top
           op == f.expr.op
           value == ret.value
       IN  IF f.pc = "start"
           THEN Invoke([f EXCEPT !.pc = "left"], FrameExpr(f.expr.left))
           ELSE IF ret.flow # "Regular" THEN PassFlow
           ELSE IF f.pc = "left"
                THEN IF op \in {"And", "Or"}
                     THEN IF ShortCircuit(op, value)
                          THEN Return(Regular(value))
                          ELSE IF value.t = "Bool"
                          THEN Invoke([f EXCEPT !.pc = "right_bool", !.left = value],
                                      FrameExpr(f.expr.right))
                          ELSE Raise(Panic("InvalidOperand", value))
                     ELSE Invoke([f EXCEPT !.pc = "right", !.left = value],
                                 FrameExpr(f.expr.right))
           ELSE IF f.pc = "right_bool"
                THEN IF value.t = "Bool" THEN Return(Regular(value))
                     ELSE Raise(Panic("InvalidOperand", value))
           ELSE LET r == BinaryOpResult(op, f.left, value)
                IN  IF r.ok THEN Return(Regular(r.value)) ELSE Raise(r.panic)
    /\ Quiet

EvalExprIf ==
    /\ InExpr("If")
    /\ LET f == Top
       IN  IF f.pc = "start"
           THEN Invoke([f EXCEPT !.pc = "condition"], FrameExpr(f.expr.condition))
           ELSE IF f.pc = "condition"
                THEN IF ret.flow # "Regular" THEN PassFlow
                     ELSE IF ret.value.t # "Bool"
                          THEN Raise(Panic("InvalidCondition", ret.value))
                     ELSE Invoke([f EXCEPT !.pc = "block"],
                                 FrameBlock(IF ret.value.n = 1 THEN f.expr.then
                                            ELSE f.expr.otherwise))
           ELSE Return(RetOk(ret.flow, ret.value, None))
    /\ Quiet

\* object[field] on the evaluated operands.
AccessResult(obj, field) ==
    IF obj.t = "Dict"
    THEN LET got == DictGet(heap[obj.n], field)
         IN  IF IsSome(got) THEN ArithOk(Unwrap(got))
             ELSE ArithErr(Panic("IndexOutOfBounds", field))
    ELSE IF obj.t = "Array" /\ field.t = "Int"
    THEN LET got == ArrayIndex(heap[obj.n], field.n)
         IN  IF IsSome(got) THEN ArithOk(Unwrap(got))
             ELSE ArithErr(Panic("IndexOutOfBounds", ValueInt(field.n)))
    ELSE IF obj.t = "Array" THEN ArithErr(Panic("InvalidOperand", field))
    ELSE ArithErr(Panic("InvalidOperand", obj))

EvalExprAccess ==
    /\ InExpr("Access")
    /\ LET f == Top
       IN  IF f.pc = "start"
           THEN Invoke([f EXCEPT !.pc = "object"], FrameExpr(f.expr.object))
           ELSE IF ret.flow # "Regular" THEN PassFlow
           ELSE IF f.pc = "object"
                THEN Invoke([f EXCEPT !.pc = "field", !.left = ret.value],
                            FrameExpr(f.expr.field))
           ELSE LET r == AccessResult(f.left, ret.value)
                IN  IF r.ok THEN Return(RetOk("Regular", r.value, Some(f.left)))
                    ELSE Raise(r.panic)
    /\ Quiet

\* self.arguments.clear(), when an argument's flow is not Regular.
ArgumentsKept(args) == args
ArgumentsCleared(args) == <<>>

\* Call: the callee, then the arguments left to right, each pushed on the
\* pending-argument buffer under its position, then Runtime::call.  `acc`
\* (the values of this call's own arguments) and `depth0` are history.
EvalExprCall ==
    /\ InExpr("Call")
    /\ LET f == Top
           args == f.expr.args
       IN  IF f.pc = "start"
           THEN /\ Invoke([f EXCEPT !.pc = "function"], FrameExpr(f.expr.function))
                /\ UNCHANGED arguments
           ELSE IF f.pc = "function"
           THEN /\ UNCHANGED arguments
                /\ IF ret.flow # "Regular" THEN PassFlow
                   ELSE IF ret.value.t # "Function"
                        THEN Raise(Panic("InvalidCall", ret.value))
                   ELSE LET g == [f EXCEPT !.function = ret.value.n, !.obj = ret.obj]
                        IN  IF Len(args) = 0
                            THEN Invoke([g EXCEPT !.pc = "call", !.depth0 = Depth(stack)],
                                        FrameCall(g.obj, g.function, "Call", <<>>))
                            ELSE Invoke([g EXCEPT !.pc = "arg", !.ix = 1], FrameExpr(args[1]))
           ELSE IF f.pc = "arg"
           THEN IF ret.flow # "Regular"
                THEN /\ arguments' = ArgumentsCleared(arguments)
                     /\ PassFlow
                ELSE LET acc == Append(f.acc, ret.value)
                     IN  /\ arguments' = Append(arguments, <<f.ix - 1, ret.value>>)
                         /\ IF f.ix < Len(args)
                            THEN Invoke([f EXCEPT !.ix = f.ix + 1, !.acc = acc],
                                        FrameExpr(args[f.ix + 1]))
                            ELSE Invoke([f EXCEPT !.pc = "call", !.acc = acc,
                                                  !.depth0 = Depth(stack)],
                                        FrameCall(f.obj, f.function, "Call", acc))
           ELSE /\ Return(Regular(ret.value))
                /\ UNCHANGED arguments
    /\ UNCHANGED <<program, stack, cells, heap, status, result, hostCalls, boundaryDirty>>

-----------------------------------------------------------------------------
(* Runtime::call                                                           *)

InCall(k) == Running("call") /\ heap[Top.function].k = k /\ ret.st # "err"

\* for (slot_ix, value) in arguments { stack.store(slot_ix, value) }
RECURSIVE PlaceArguments(_, _, _)
PlaceArguments(stk, cl, args) ==
    IF args = <<>> THEN cl
    ELSE PlaceArguments(stk, StackStore(stk, cl, args[1][1], args[1][2]), Tail(args))

ArgumentsInFrame(stk, args) == \A i \in 1..Len(args) : InFrame(stk, args[i][1])

\* for (value, slot_ix) in context { stack.place(slot_ix, value) }
RECURSIVE PlaceEach(_, _)
PlaceEach(stk, context) ==
    IF context = <<>> THEN stk
    ELSE PlaceEach(StackPlace(stk, context[1][2], context[1][1]), Tail(context))

CapturesNotPlaced(stk, context) == stk
PlaceCaptures(stk, context) == PlaceEach(stk, context)

\* match (obj, frame_info.self_slot) { (Some(obj), Some(slot_ix)) => store, _ => () }
SelfNotPlaced(stk, cl, obj, self_slot) == cl
PlaceSelf(stk, cl, obj, self_slot) ==
    IF IsSome(obj) /\ IsSome(self_slot)
    THEN StackStore(stk, cl, Unwrap(self_slot), Unwrap(obj))
    ELSE cl

\* self.stack.extend(slots).map_err(|_| Panic::stack_overflow(pos))?
ExtendErrorIgnored(stk, n) == FALSE
ExtendFails(stk, n) == ~StackCanExtend(stk, n)

\* Flow::Regular(value) => value, Flow::Return(value) => value: call yields a
\* Value, which its caller wraps in Flow::Regular.
BodyFlowKept(flow, value) == RetOk(flow, value, None)
BodyValue(flow, value) == Regular(value)

CallHush ==
    /\ InCall("Hush")
    /\ LET f == Top
           fun == heap[f.function]
           args_count == Len(arguments)
           slots == fun.frame_info.slots
       IN  IF f.pc = "start"
           THEN /\ arguments' = <<>>
                /\ IF args_count # fun.params
                   THEN /\ Raise(Panic("MissingParameters", ValueNil))
                        /\ UNCHANGED <<stack, cells, status>>
                   ELSE IF ExtendFails(stack, slots)
                   THEN /\ Raise(Panic("StackOverflow", ValueNil))
                        /\ UNCHANGED <<stack, cells, status>>
                   ELSE LET ext == StackExtend(stack, cells, slots)
                            placed == PlaceCaptures(ext.stack, fun.context)
                        IN  IF ~ArgumentsInFrame(ext.stack, arguments)
                            THEN \* a store outside the frame: the process dies
                                 /\ status' = "abort"
                                 /\ kont' = <<>>
                                 /\ ret' = RetNone
                                 /\ UNCHANGED <<stack, cells>>
                            ELSE /\ stack' = placed
                                 /\ cells' = PlaceSelf(placed,
                                                PlaceArguments(ext.stack, ext.cells, arguments),
                                                f.obj, fun.frame_info.self_slot)
                                 /\ Invoke([f EXCEPT !.pc = "body", !.slots = slots],
                                           FrameBlock(fun.body))
                                 /\ UNCHANGED status
           ELSE /\ UNCHANGED <<arguments, cells>>
                /\ IF ret.flow = "Break"
                   THEN \* panic!("break outside loop")
                        /\ status' = "abort"
                        /\ kont' = <<>>
                        /\ ret' = RetNone
                        /\ UNCHANGED stack
                   ELSE /\ stack' = StackShrink(stack, f.slots)
                        /\ Return(BodyValue(ret.flow, ret.value))
                        /\ UNCHANGED status
    /\ UNCHANGED <<program, heap, result, hostCalls, boundaryDirty>>

\* What the host callable `name` returns when run on args_count argument slots.
HostResult(name, args_count) ==
    CASE name = "fail" -> ArithErr(HostPanic)
      [] name = "argc" -> ArithOk(ValueInt(args_count))
      [] name = "next" -> ArithOk(ValueDict(NewHandle))

CallRust ==
    /\ InCall("Rust")
    /\ LET f == Top
           fun == heap[f.function]
           args_count == Len(arguments)
           r == HostResult(fun.name, args_count)
       IN  /\ arguments' = <<>>
           /\ IF ExtendFails(stack, args_count)
              THEN /\ Raise(Panic("StackOverflow", ValueNil))
                   /\ UNCHANGED <<stack, cells, heap, status, hostCalls>>
              ELSE LET ext == StackExtend(stack, cells, args_count)
                   IN  IF ~ArgumentsInFrame(ext.stack, arguments)
                       THEN /\ status' = "abort"
                            /\ kont' = <<>>
                            /\ ret' = RetNone
                            /\ UNCHANGED <<stack, cells, heap, hostCalls>>
                       ELSE IF ~r.ok
                       THEN \* fun(..)? returns before the shrink
                            /\ stack' = ext.stack
                            /\ cells' = PlaceArguments(ext.stack, ext.cells, arguments)
                            /\ Raise(r.panic)
                            /\ UNCHANGED <<heap, status, hostCalls>>
                       ELSE \* extend, place, run, shrink: the frame's cells are gone
                            /\ stack' = StackShrink(ext.stack, args_count)
                            /\ cells' = cells
                            /\ IF fun.name = "next"
                               THEN /\ heap' = Alloc(IterDict(hostCalls >= HostIterItems,
                                                     IF hostCalls >= HostIterItems THEN ValueNil
                                                     ELSE ValueInt(hostCalls + 1)))
                                    /\ hostCalls' = hostCalls + 1
                               ELSE UNCHANGED <<heap, hostCalls>>
                            /\ Return(Regular(r.value))
                            /\ UNCHANGED status
    /\ UNCHANGED <<program, result, boundaryDirty>>

-----------------------------------------------------------------------------
(* Runtime::eval_statement                                                 *)

InStatement(k) == Running("eval_statement") /\ Top.statement.k = k /\ ret.st # "err"

\* A non-Regular flow of a sub-expression is the statement's flow.
PassStatementFlow == Return(RetOk(ret.flow, ret.value, None))

\* array[ix] = value: `if ix >= array.len()` faults, else array.set(ix, value),
\* whose Err is mapped to the same fault.  The array after it, or the panic.
ArrayAssignSilent(array, ix, value) ==
    LET set == ArraySet(array, ix, value)
    IN  [ok |-> TRUE, array |-> IF IsSome(set) THEN Unwrap(set) ELSE array, panic |-> NoPanic]
ArrayAssign(array, ix, value) ==
    IF ix >= Len(array.elems)
    THEN [ok |-> FALSE, array |-> array, panic |-> Panic("IndexOutOfBounds", ValueInt(ix))]
    ELSE LET set == ArraySet(array, ix, value)
         IN  IF IsSome(set)
             THEN [ok |-> TRUE, array |-> Unwrap(set), panic |-> NoPanic]
             ELSE [ok |-> FALSE, array |-> array,
                   panic |-> Panic("IndexOutOfBounds", ValueInt(ix))]

\* object[field] = value on the evaluated operands: the heap after it, or the panic.
AssignNothing(obj, field, value) == [ok |-> TRUE, heap |-> heap, panic |-> NoPanic]
AssignResult(obj, field, value) ==
    IF obj.t = "Dict"
    THEN [ok |-> TRUE, heap |-> [heap EXCEPT ![obj.n] = DictInsert(heap[obj.n], field, value)],
          panic |-> NoPanic]
    ELSE IF obj.t = "Array" /\ field.t = "Int"
    THEN LET r == ArrayAssign(heap[obj.n], field.n, value)
         IN  [ok |-> r.ok, heap |-> [heap EXCEPT ![obj.n] = r.array], panic |-> r.panic]
    ELSE IF obj.t = "Array"
    THEN [ok |-> FALSE, heap |-> heap, panic |-> Panic("InvalidOperand", field)]
    ELSE [ok |-> FALSE, heap |-> heap, panic |-> Panic("InvalidOperand", obj)]

EvalStatementAssign ==
    /\ InStatement("Assign")
    /\ LET f == Top
           left == f.statement.left
       IN  IF f.pc = "start"
           THEN /\ Invoke([f EXCEPT !.pc = "right"], FrameExpr(f.statement.right))
                /\ UNCHANGED <<cells, heap>>
           ELSE IF ret.flow # "Regular"
           THEN PassStatementFlow /\ UNCHANGED <<cells, heap>>
           ELSE IF f.pc = "right"
           THEN IF left.k = "Identifier"
                THEN /\ cells' = StackStore(stack, cells, left.slot_ix, ret.value)
                     /\ Return(Regular(ValueNil))
                     /\ UNCHANGED heap
                ELSE /\ Invoke([f EXCEPT !.pc = "object", !.value = ret.value],
                               FrameExpr(left.object))
                     /\ UNCHANGED <<cells, heap>>
           ELSE IF f.pc = "object"
           THEN /\ Invoke([f EXCEPT !.pc = "field", !.obj = ret.value], FrameExpr(left.field))
                /\ UNCHANGED <<cells, heap>>
           ELSE LET r == AssignResult(f.obj, ret.value, f.value)
                IN  /\ heap' = r.heap
                    /\ IF r.ok THEN Return(Regular(ValueNil)) ELSE Raise(r.panic)
                    /\ UNCHANGED cells
    /\ UNCHANGED <<program, stack, arguments, status, result, hostCalls, boundaryDirty>>

EvalStatementReturn ==
    /\ InStatement("Return")
    /\ IF Top.pc = "start"
       THEN Invoke([Top EXCEPT !.pc = "expr"], FrameExpr(Top.statement.expr))
       ELSE IF ret.flow = "Regular" THEN Return(RetOk("Return", ret.value, None))
       ELSE PassStatementFlow
    /\ Quiet

EvalStatementBreak ==
    /\ InStatement("Break")
    /\ Return(RetOk("Break", ValueNil, None))
    /\ Quiet

EvalStatementWhile ==
    /\ InStatement("While")
    /\ LET f == Top
       IN  IF f.pc = "start"
           THEN Invoke([f EXCEPT !.pc = "condition"], FrameExpr(f.statement.condition))
           ELSE IF f.pc = "condition"
           THEN IF ret.flow # "Regular" THEN PassStatementFlow
                ELSE IF ret.value.t # "Bool"
                     THEN Raise(Panic("InvalidCondition", ret.value))
                ELSE IF ret.value.n = 0 THEN Return(Regular(ValueNil))
                ELSE Invoke([f EXCEPT !.pc = "block"], FrameBlock(f.statement.block))
           ELSE IF ret.flow = "Regular"
                THEN Invoke([f EXCEPT !.pc = "condition"], FrameExpr(f.statement.condition))
                ELSE IF ret.flow = "Return" THEN PassStatementFlow
                ELSE Return(Regular(ValueNil))
    /\ Quiet

\* What one result of the iterator means to For: run the body with `value`
\* in the loop slot, finish, or fault.
IterStep(value) ==
    IF value.t # "Dict"
    THEN [k |-> "panic", value |-> ValueNil, panic |-> Panic("InvalidOperand", value)]
    ELSE LET finished == DictGet(heap[value.n], ValueString("finished"))
             item == DictGet(heap[value.n], ValueString("value"))
         IN  IF ~IsSome(finished)
             THEN [k |-> "panic", value |-> ValueNil,
                   panic |-> Panic("IndexOutOfBounds", ValueString("finished"))]
             ELSE IF Unwrap(finished) = ValueBool(FALSE)
             THEN IF ~IsSome(item)
                  THEN [k |-> "panic", value |-> ValueNil,
                        panic |-> Panic("IndexOutOfBounds", ValueString("value"))]
                  ELSE [k |-> "body", value |-> Unwrap(item), panic |-> NoPanic]
             ELSE IF Unwrap(finished) = ValueBool(TRUE)
             THEN [k |-> "break", value |-> ValueNil, panic |-> NoPanic]
             ELSE [k |-> "panic", value |-> ValueNil,
                   panic |-> Panic("InvalidOperand", Unwrap(finished))]

\* `calls` (iterator calls made), `bodies` (body runs begun) and `seen` (the loop
\* slot at the start of each body run) are history.
EvalStatementFor ==
    /\ InStatement("For")
    /\ LET f == Top
           callIter(g) == Invoke([g EXCEPT !.pc = "iter", !.depth0 = Depth(stack),
                                           !.calls = g.calls + 1],
                                 FrameCall(None, g.iter, "For", <<>>))
       IN  IF f.pc = "start"
           THEN /\ Invoke([f EXCEPT !.pc = "expr"], FrameExpr(f.statement.expr))
                /\ UNCHANGED cells
           ELSE IF f.pc = "expr"
           THEN /\ UNCHANGED cells
                /\ IF ret.flow # "Regular" THEN PassStatementFlow
                   ELSE IF ret.value.t # "Function"
                        THEN Raise(Panic("InvalidOperand", ret.value))
                   ELSE callIter([f EXCEPT !.iter = ret.value.n])
           ELSE IF f.pc = "iter"
           THEN LET step == IterStep(ret.value)
                IN  IF step.k = "panic" THEN Raise(step.panic) /\ UNCHANGED cells
                    ELSE IF step.k = "break"
                         THEN Return(Regular(ValueNil)) /\ UNCHANGED cells
                    ELSE /\ cells' = StackStore(stack, cells, f.statement.slot_ix, step.value)
                         /\ Invoke([f EXCEPT !.pc = "block", !.bodies = f.bodies + 1,
                                             !.seen = Append(f.seen, step.value)],
                                   FrameBlock(f.statement.block))
           ELSE /\ UNCHANGED cells
                /\ IF ret.flow = "Regular" THEN callIter(f)
                   ELSE IF ret.flow = "Return" THEN PassStatementFlow
                   ELSE Return(Regular(ValueNil))
    /\ UNCHANGED <<program, stack, heap, arguments, status, result, hostCalls, boundaryDirty>>

EvalStatementExpr ==
    /\ InStatement("Expr")
    /\ IF Top.pc = "start"
       THEN Invoke([Top EXCEPT !.pc = "expr"], FrameExpr(Top.statement.expr))
       ELSE Return(RetOk(ret.flow, ret.value, None))
    /\ Quiet

-----------------------------------------------------------------------------
(* Resolved programs.  Slot 0 of the root frame is the standard library.   *)

Id(slot_ix) == EIdentifier(slot_ix)
Num(i) == ELiteral(LInt(i))
True == ELiteral(LBool(TRUE))
False == ELiteral(LBool(FALSE))
Nil == ELiteral(LNil)
Std(name) == EAccess(Id(0), ELiteral(LIdentifier(name)))
Fn(params, slots, self_slot, captures, body) ==
    ELiteral(LFunction(params, FrameInfo(slots, self_slot, captures), body))
Let(slot_ix, expr) == SAssign(LvIdentifier(slot_ix), expr)
Do(expr) == SExpr(expr)
IfTrue(block) == EIf(True, block, <<Do(Nil)>>)
IfTrueElse(block, value) == EIf(True, block, <<Do(value)>>)

\* function (a, b) return b end  /  function (a) return a end
FnSecond == Fn(2, 2, None, <<>>, <<SReturn(Id(1))>>)
FnFirst == Fn(1, 2, None, <<>>, <<SReturn(Id(0))>>)
\* the same bodies under another parameter count
FnOf(params, slot_ix) == Fn(params, 2, None, <<>>, <<SReturn(Id(slot_ix))>>)

\* f(1, g(2)) with f of pf parameters and g of pg
ProgNested(pf, pg) ==
    Program(3, <<Let(1, FnOf(pf, 1)), Let(2, FnOf(pg, 0)),
                 Do(ECall(Id(1), <<Num(1), ECall(Id(2), <<Num(2)>>)>>))>>)

\* f(1, if true then 2 else 3 end)
ProgIfArg ==
    Program(2, <<Let(1, FnSecond),
                 Do(ECall(Id(1), <<Num(1), EIf(True, <<Do(Num(2))>>, <<Do(Num(3))>>)>>))>>)

\* f = function () nil + 1 end; f()
ProgBodyPanic ==
    Program(2, <<Let(1, Fn(0, 1, None, <<>>, <<Do(EBinaryOp(Nil, "Plus", Num(1)))>>)),
                 Do(ECall(Id(1), <<>>))>>)

\* std.fail(1), std.argc(1, 2)
ProgHostFail == Program(1, <<Do(ECall(Std("fail"), <<Num(1)>>))>>)
ProgHostArgc == Program(1, <<Do(ECall(Std("argc"), <<Num(1), Num(2)>>))>>)

\* mk = function () c = 0; return function () c = c + 1; return c end end
\* f = mk(); [f(), f(), f()]
ProgCounter ==
    Program(3,
      <<Let(1, Fn(0, 1, None, <<>>,
                  <<Let(0, Num(0)),
                    SReturn(Fn(0, 1, None, <<Cap(0, 0)>>,
                               <<Let(0, EBinaryOp(Id(0), "Plus", Num(1))), SReturn(Id(0))>>))>>)),
        Let(2, ECall(Id(1), <<>>)),
        Do(ELiteral(LArray(<<ECall(Id(2), <<>>), ECall(Id(2), <<>>), ECall(Id(2), <<>>)>>)))>>)

\* x = 0; g = function () x = x + 1; return x end
\* a = g(); x = 5; b = g(); [a, b, x]
ProgShared ==
    Program(5,
      <<Let(1, Num(0)),
        Let(2, Fn(0, 1, None, <<Cap(1, 0)>>,
                  <<Let(0, EBinaryOp(Id(0), "Plus", Num(1))), SReturn(Id(0))>>)),
        Let(3, ECall(Id(2), <<>>)),
        Let(1, Num(5)),
        Let(4, ECall(Id(2), <<>>)),
        Do(ELiteral(LArray(<<Id(3), Id(4), Id(1)>>)))>>)

\* two closures over one cell of a frame that is gone:
\* mk = function () c = 0; return [function () c = c + 1 end, function () return c end] end
\* p = mk(); p[0](); p[0](); p[1]()
ProgTwoClosures ==
    Program(3,
      <<Let(1, Fn(0, 1, None, <<>>,
                  <<Let(0, Num(0)),
                    SReturn(ELiteral(LArray(
                      <<Fn(0, 1, None, <<Cap(0, 0)>>,
                           <<Let(0, EBinaryOp(Id(0), "Plus", Num(1)))>>),
                        Fn(0, 1, None, <<Cap(0, 0)>>, <<SReturn(Id(0))>>)>>)))>>)),
        Let(2, ECall(Id(1), <<>>)),
        Do(ECall(EAccess(Id(2), Num(0)), <<>>)),
        Do(ECall(EAccess(Id(2), Num(0)), <<>>)),
        Do(ECall(EAccess(Id(2), Num(1)), <<>>))>>)

\* acc = 0; for x in std.next do acc = acc + x end; acc
ProgForHost ==
    Program(3, <<Let(2, Num(0)),
                 SFor(1, Std("next"), <<Let(2, EBinaryOp(Id(2), "Plus", Id(1)))>>),
                 Do(Id(2))>>)

\* An iterator closure over the counter in slot `from`: k items 1 .. k, then finished.
IterFn(from, k) ==
    Fn(0, 1, None, <<Cap(from, 0)>>,
       <<Let(0, EBinaryOp(Id(0), "Plus", Num(1))),
         SReturn(EIf(EBinaryOp(Id(0), "Equals", Num(k + 1)),
                     <<Do(ELiteral(LDict(<<<<"finished", True>>, <<"value", Nil>>>>)))>>,
                     <<Do(ELiteral(LDict(<<<<"finished", False>>, <<"value", Id(0)>>>>)))>>))>>)

\* c = 0; it = <iterator of k items>; acc = 0; for x in it do acc = acc + x end; acc
ProgForUser(k) ==
    Program(5, <<Let(1, Num(0)), Let(2, IterFn(1, k)), Let(4, Num(0)),
                 SFor(3, Id(2), <<Let(4, EBinaryOp(Id(4), "Plus", Id(3)))>>),
                 Do(Id(4))>>)

\* f(1, if true then for x in <iterator> do end; 2 else 3 end)
ProgForInArg(iter) ==
    Program(5, <<Let(1, Num(0)), Let(2, iter), Let(4, FnSecond),
                 Do(ECall(Id(4), <<Num(1),
                       EIf(True, <<SFor(3, Id(2), <<>>), Do(Num(2))>>, <<Do(Num(3))>>)>>))>>)

\* i = 0; while true do i = i + 1; if i == 3 then break end end; i
ProgWhile ==
    Program(2, <<Let(1, Num(0)),
                 SWhile(True, <<Let(1, EBinaryOp(Id(1), "Plus", Num(1))),
                                Do(EIf(EBinaryOp(Id(1), "Equals", Num(3)),
                                       <<SBreak>>, <<>>))>>),
                 Do(Id(1))>>)

\* a = [1, 2]; a[ix] = 5; d = @[x: 1]; d.y = a[0]; [d.x, d.y, a[1]]
ProgContainers(ix) ==
    Program(3, <<Let(1, ELiteral(LArray(<<Num(1), Num(2)>>))),
                 SAssign(LvAccess(Id(1), Num(ix)), Num(5)),
                 Let(2, ELiteral(LDict(<<<<"x", Num(1)>>>>))),
                 SAssign(LvAccess(Id(2), ELiteral(LIdentifier("y"))), EAccess(Id(1), Num(0))),
                 Do(ELiteral(LArray(<<EAccess(Id(2), ELiteral(LIdentifier("x"))),
                                      EAccess(Id(2), ELiteral(LIdentifier("y"))),
                                      EAccess(Id(1), Num(1))>>)))>>)

\* not (false or (true and b)); -(0 - IntMax - 1); -(1.5)
ProgUnary(operand) == Program(1, <<Do(EUnaryOp("Minus", operand))>>)
ProgBool(a, b) ==
    Program(1, <<Do(EUnaryOp("Not", EBinaryOp(a, "Or", EBinaryOp(True, "And", b))))>>)

\* f = function () f() end; f()
ProgRecursion ==
    Program(2, <<Let(1, Fn(0, 1, None, <<Cap(1, 0)>>, <<Do(ECall(Id(0), <<>>))>>)),
                 Do(ECall(Id(1), <<>>))>>)

\* obj = @[m: function () return self end, v: 4]; obj.m().v
ProgMethod ==
    Program(2, <<Let(1, ELiteral(LDict(<<<<"m", Fn(0, 1, Some(0), <<>>, <<SReturn(Id(0))>>)>>,
                                         <<"v", Num(4)>>>>))),
                 Do(EAccess(ECall(EAccess(Id(1), ELiteral(LIdentifier("m"))), <<>>),
                            ELiteral(LIdentifier("v"))))>>)

\* x = 0; f = function () x = x + 1; <tail> end; r = <left> <op> f(); [r, x]
\* The tail of f returns true, false or nil, or faults (1 / 0).
ShortLefts == <<True, False, Nil>>
ShortTails ==
    <<<<SReturn(True)>>, <<SReturn(False)>>, <<SReturn(Nil)>>,
      <<Do(EBinaryOp(Num(1), "Div", Num(0)))>>>>
ProgShort(l, op, t) ==
    Program(4,
      <<Let(1, Num(0)),
        Let(2, Fn(0, 1, None, <<Cap(1, 0)>>,
                  <<Let(0, EBinaryOp(Id(0), "Plus", Num(1)))>> \o ShortTails[t])),
        Let(3, EBinaryOp(ShortLefts[l], op, ECall(Id(2), <<>>))),
        Do(ELiteral(LArray(<<Id(3), Id(1)>>)))>>)

\* m = function (a) return self end; obj = @[m: m, v: 4]; other = @[m: m, v: 5]
\* <callee>(<arg>), the callee being obj.m, m, an If yielding obj.m, or the
\* result of a call that returns m; the argument other.v or other.m(1).
Fld(object, name) == EAccess(object, ELiteral(LIdentifier(name)))
FnSelf == Fn(1, 2, Some(1), <<>>, <<SReturn(Id(1))>>)
SelfCallees ==
    <<Fld(Id(2), "m"),
      Id(1),
      IfTrueElse(<<Do(Fld(Id(2), "m"))>>, Nil),
      ECall(Fn(0, 1, None, <<Cap(1, 0)>>, <<SReturn(Id(0))>>), <<>>)>>
SelfArgs == <<Fld(Id(3), "v"), ECall(Fld(Id(3), "m"), <<Num(1)>>)>>
ProgSelf(c, a) ==
    Program(4,
      <<Let(1, FnSelf),
        Let(2, ELiteral(LDict(<<<<"m", Id(1)>>, <<"v", Num(4)>>>>))),
        Let(3, ELiteral(LDict(<<<<"m", Id(1)>>, <<"v", Num(5)>>>>))),
        Do(ECall(SelfCallees[c], <<SelfArgs[a]>>))>>)

\* obj = @[it: function () return @[finished: true, value: self] end]
\* for x in obj.it do end
ProgForSelf ==
    Program(3,
      <<Let(1, ELiteral(LDict(<<<<"it",
                 Fn(0, 1, Some(0), <<>>,
                    <<SReturn(ELiteral(LDict(<<<<"finished", True>>,
                                               <<"value", Id(0)>>>>)))>>)>>>>))),
        SFor(2, Fld(Id(1), "it"), <<>>)>>)

\* a = [1, 2]; b = a; b[0] = 3; r1 = a[0]; a[1] = 4; r2 = b[1]
\* set = function (c) c[0] = 5 end; set(b); cap = function () a[1] = 6 end; cap()
\* [r1, r2, a[0], b[0], a[1], b[1], a == b]
ProgAlias ==
    Program(7,
      <<Let(1, ELiteral(LArray(<<Num(1), Num(2)>>))),
        Let(2, Id(1)),
        SAssign(LvAccess(Id(2), Num(0)), Num(3)),
        Let(5, EAccess(Id(1), Num(0))),
        SAssign(LvAccess(Id(1), Num(1)), Num(4)),
        Let(6, EAccess(Id(2), Num(1))),
        Let(3, Fn(1, 1, None, <<>>, <<SAssign(LvAccess(Id(0), Num(0)), Num(5))>>)),
        Do(ECall(Id(3), <<Id(2)>>)),
        Let(4, Fn(0, 1, None, <<Cap(1, 0)>>, <<SAssign(LvAccess(Id(0), Num(1)), Num(6))>>)),
        Do(ECall(Id(4), <<>>)),
        Do(ELiteral(LArray(<<Id(5), Id(6), EAccess(Id(1), Num(0)), EAccess(Id(2), Num(0)),
                             EAccess(Id(1), Num(1)), EAccess(Id(2), Num(1)),
                             EBinaryOp(Id(1), "Equals", Id(2))>>)))>>)

\* d = @[k: 1]; e = d; e.k = 2; d.j = 3; [d.k, e.j, [1] == [1]]
ProgAliasDict ==
    Program(3,
      <<Let(1, ELiteral(LDict(<<<<"k", Num(1)>>>>))),
        Let(2, Id(1)),
        SAssign(LvAccess(Id(2), ELiteral(LIdentifier("k"))), Num(2)),
        SAssign(LvAccess(Id(1), ELiteral(LIdentifier("j"))), Num(3)),
        Do(ELiteral(LArray(<<Fld(Id(1), "k"), Fld(Id(2), "j"),
                             EBinaryOp(ELiteral(LArray(<<Num(1)>>)), "Equals",
                                       ELiteral(LArray(<<Num(1)>>)))>>)))>>)

\* x = 1; y = x; y = 2; x = x + 2; [x, y]
ProgScalarCopy ==
    Program(3,
      <<Let(1, Num(1)), Let(2, Id(1)), Let(2, Num(2)),
        Let(1, EBinaryOp(Id(1), "Plus", Num(2))),
        Do(ELiteral(LArray(<<Id(1), Id(2)>>)))>>)

\* f = function () return 3 end
\* g = function () while true do return 2 end; return 6 end
\* y = f(); y = y + 1; z = g(); [y, z, f() + g()]
ProgReturn ==
    Program(5,
      <<Let(1, Fn(0, 0, None, <<>>, <<SReturn(Num(3))>>)),
        Let(2, Fn(0, 0, None, <<>>, <<SWhile(True, <<SReturn(Num(2))>>), SReturn(Num(6))>>)),
        Let(3, ECall(Id(1), <<>>)),
        Let(3, EBinaryOp(Id(3), "Plus", Num(1))),
        Let(4, ECall(Id(2), <<>>)),
        Do(ELiteral(LArray(<<Id(3), Id(4),
                             EBinaryOp(ECall(Id(1), <<>>), "Plus", ECall(Id(2), <<>>))>>)))>>)

\* f = function (a, b) return b end; g = function () f(1, nil + 1) end; g()
ProgArgPanic ==
    Program(3,
      <<Let(1, FnSecond),
        Let(2, Fn(0, 1, None, <<Cap(1, 0)>>,
                  <<Do(ECall(Id(0), <<Num(1), EBinaryOp(Nil, "Plus", Num(1))>>))>>)),
        Do(ECall(Id(2), <<>>))>>)

\* x = 0; f = function () while true do nil + 1; x = 1 end; x = 2 end
\* [f(), 5]; x = 3; 7
ProgPanicThen ==
    Program(3,
      <<Let(1, Num(0)),
        Let(2, Fn(0, 1, None, <<Cap(1, 0)>>,
                  <<SWhile(True, <<Do(EBinaryOp(Nil, "Plus", Num(1))), Let(0, Num(1))>>),
                    Let(0, Num(2))>>)),
        Do(ELiteral(LArray(<<ECall(Id(2), <<>>), Num(5)>>))),
        Let(1, Num(3)),
        Do(Num(7))>>)

\* x = 0; f = function () x = 1; return 5; x = 2 end; r = f()
\* while true do x = x + 2; break; x = x + 4 end; [r, x]
ProgStops ==
    Program(4,
      <<Let(1, Num(0)),
        Let(2, Fn(0, 1, None, <<Cap(1, 0)>>,
                  <<Let(0, Num(1)), SReturn(Num(5)), Let(0, Num(2))>>)),
        Let(3, ECall(Id(2), <<>>)),
        SWhile(True, <<Let(1, EBinaryOp(Id(1), "Plus", Num(2))), SBreak,
                       Let(1, EBinaryOp(Id(1), "Plus", Num(4)))>>),
        Do(ELiteral(LArray(<<Id(3), Id(1)>>)))>>)

\* Programs by their last statement: none; an Assign; a While; a For; the
\* call of a function with an empty body; an expression after those.
LastStatements ==
    <<<<>>,
      <<Do(Num(1)), Let(1, Num(2))>>,
      <<Do(Num(1)), SWhile(False, <<Do(Num(2))>>)>>,
      <<Do(Num(1)), SFor(1, Std("next"), <<Do(Num(2))>>)>>,
      <<Do(Num(1)), Do(ECall(Fn(0, 0, None, <<>>, <<>>), <<>>))>>,
      <<Let(1, Num(2)), SWhile(False, <<>>), Do(Num(3))>>>>
ProgLast(n) == Program(2, LastStatements[n])

\* i = 0; while true do <inner loop>; i = 1; break end; i
\* The inner loop breaks in its condition or in its iterator expression:
\*   while (if true then break else true end) do end
\*   for x in (if true then break else nil end) do end
BreakingLoops ==
    <<SWhile(IfTrueElse(<<SBreak>>, True), <<>>),
      SFor(2, IfTrueElse(<<SBreak>>, Nil), <<>>)>>
ProgBreakInLoopHead(n) ==
    Program(3,
      <<Let(1, Num(0)),
        SWhile(True, <<BreakingLoops[n], Let(1, Num(1)), SBreak>>),
        Do(Id(1))>>)

\* a = [1, 2, 3]; b = a; a[ix] = 5; [b[0], b[1], b[2]]
AssignIndexes == <<IntMin, -2, -1, 0, 1, 2, 3, 4, IntMax>>
ProgArrayAssign(ix) ==
    Program(3,
      <<Let(1, ELiteral(LArray(<<Num(1), Num(2), Num(3)>>))),
        Let(2, Id(1)),
        SAssign(LvAccess(Id(1), Num(ix)), Num(5)),
        Do(ELiteral(LArray(<<EAccess(Id(2), Num(0)), EAccess(Id(2), Num(1)),
                             EAccess(Id(2), Num(2))>>)))>>)

\* a root frame the stack cannot hold
ProgTooBig == Program(MaxStackDepth + 1, <<>>)

\* On a root frame that fills the stack: f = function () f = 1 end; f()
\* and std.argc(1).
ProgUserOverflow ==
    Program(MaxStackDepth,
      <<Let(1, Fn(0, 1, None, <<Cap(1, 0)>>, <<Let(0, Num(1))>>)),
        Do(ECall(Id(1), <<>>))>>)
ProgHostOverflow == Program(MaxStackDepth, <<Do(ECall(Std("argc"), <<Num(1)>>))>>)

\* Statements mixing calls, loops, returns and breaks, for a frame whose slots
\* 0..3 hold std, f = FnSecond, g = FnFirst and a scratch variable.
CallF(a, b) == ECall(Id(1), <<a, b>>)
CallG(a) == ECall(Id(2), <<a>>)

Snippets ==
    <<Do(CallF(Num(1), CallG(Num(2)))),
      Do(CallF(Num(1), IfTrueElse(<<SBreak>>, Num(2)))),
      Do(CallF(Num(1), IfTrueElse(<<SReturn(Num(3))>>, Num(2)))),
      Do(CallG(CallF(Num(1), Num(2)))),
      SBreak,
      SReturn(Num(1)),
      Do(CallG(IfTrueElse(<<SWhile(True, <<Do(CallF(Num(5), IfTrueElse(<<SBreak>>, Num(0))))>>),
                            Do(Num(2))>>, Num(3)))),
      SFor(3, Std("next"), <<Do(CallF(Id(3), IfTrueElse(<<SBreak>>, Num(1))))>>),
      Do(ECall(IfTrueElse(<<SBreak>>, Id(2)), <<Num(1)>>)),
      Let(3, CallF(Num(1), ELiteral(LArray(<<Num(1), IfTrueElse(<<SBreak>>, Num(2))>>)))),
      Do(CallF(Num(1), IfTrueElse(<<Let(3, CallG(Num(4))), Do(Id(3))>>, Num(2))))>>

MixLoop(a, b) == SWhile(True, <<Snippets[a], Snippets[b], SBreak>>)

\* at the top level: f = ..; g = ..; while true do <a>; <b>; break end; 7
ProgMixTop(a, b) ==
    Program(4, <<Let(1, FnSecond), Let(2, FnFirst), MixLoop(a, b), Do(Num(7))>>)

\* in a function: h = function () while true do <a>; <b>; break end; return 7 end; h()
ProgMixFn(a, b) ==
    Program(5, <<Let(1, FnSecond), Let(2, FnFirst),
                 Let(4, Fn(0, 4, None, <<Cap(0, 0), Cap(1, 1), Cap(2, 2)>>,
                           <<MixLoop(a, b), SReturn(Num(7))>>)),
                 Do(ECall(Id(4), <<>>))>>)

FixedPrograms ==
    <<ProgNested(1, 1), ProgNested(1, 2), ProgNested(2, 1), ProgNested(2, 2),
      ProgIfArg, ProgBodyPanic, ProgHostFail, ProgHostArgc,
      ProgCounter, ProgShared, ProgTwoClosures,
      ProgForHost, ProgForUser(0), ProgForUser(1), ProgForUser(2),
      ProgForInArg(Std("next")), ProgForInArg(IterFn(1, 1)),
      ProgWhile, ProgContainers(0), ProgContainers(1), ProgContainers(2),
      ProgContainers(-1),
      ProgUnary(Num(1)), ProgUnary(ELiteral(LFloat(3, 2))), ProgUnary(Nil),
      ProgUnary(EBinaryOp(EBinaryOp(Num(0), "Minus", Num(IntMax)), "Minus", Num(1))),
      ProgBool(False, True), ProgBool(True, True), ProgBool(False, False),
      ProgBool(Nil, True), ProgBool(False, Nil),
      ProgRecursion, ProgMethod, ProgTooBig, ProgForSelf,
      ProgAlias, ProgAliasDict, ProgScalarCopy, ProgReturn, ProgArgPanic,
      ProgPanicThen, ProgStops, ProgUserOverflow, ProgHostOverflow>>

-----------------------------------------------------------------------------
(* The evaluator run on one program.                                       *)

Constructed ==
    /\ stack = <<>>
    /\ cells = <<>>
    /\ heap = <<>>
    /\ arguments = <<>>
    /\ kont = <<FrameEval>>
    /\ ret = RetNone
    /\ status = "running"
    /\ result = NoResult
    /\ hostCalls = 0
    /\ boundaryDirty = FALSE

Init ==
    /\ \/ \E i \in 1..Len(FixedPrograms) : program = FixedPrograms[i]
       \/ \E a, b \in 1..Len(Snippets) : program = ProgMixTop(a, b)
       \/ \E a, b \in 1..Len(Snippets) : program = ProgMixFn(a, b)
       \/ \E l \in 1..Len(ShortLefts), t \in 1..Len(ShortTails) :
             \E op \in {"And", "Or"} : program = ProgShort(l, op, t)
       \/ \E c \in 1..Len(SelfCallees), a \in 1..Len(SelfArgs) : program = ProgSelf(c, a)
       \/ \E n \in 1..Len(LastStatements) : program = ProgLast(n)
       \/ \E n \in 1..Len(AssignIndexes) : program = ProgArrayAssign(AssignIndexes[n])
       \/ \E n \in 1..Len(BreakingLoops) : program = ProgBreakInLoopHead(n)
    /\ Constructed

Next ==
    \/ EvalStart \/ EvalFinish \/ EvalFail \/ PropagateErr
    \/ EvalBlock
    \/ EvalExprIdentifier
    \/ EvalLiteralScalar \/ EvalLiteralArray \/ EvalLiteralDict \/ EvalLiteralFunction
    \/ EvalExprUnaryOp \/ EvalExprBinaryOp \/ EvalExprIf \/ EvalExprAccess \/ EvalExprCall
    \/ CallHush \/ CallRust
    \/ EvalStatementAssign \/ EvalStatementReturn \/ EvalStatementBreak
    \/ EvalStatementWhile \/ EvalStatementFor \/ EvalStatementExpr

Spec == Init /\ [][Next]_vars

\* The evaluator is one synchronous thread: while Runtime::eval has not
\* returned, its next step is taken.
SpecLive == Spec /\ WF_vars(Next)

-----------------------------------------------------------------------------
(* One binary arithmetic expression on two literal operands.               *)

IntOperands == [i \in 1..(IntMax - IntMin + 1) |-> LInt(IntMin + i - 1)]
FloatOperands ==
    [i \in 1..(2 * (2 * MaxOperand + 1)) |->
        LFloat(((i - 1) \div 2) - MaxOperand, ((i - 1) % 2) + 1)]
OtherOperands == <<LNil, LBool(TRUE), LString("s")>>
Operands == IntOperands \o FloatOperands \o OtherOperands

ProgArith(l, op, r) == Program(1, <<Do(EBinaryOp(ELiteral(l), op, ELiteral(r)))>>)

ArithInit ==
    /\ \E i, j \in 1..Len(Operands) : \E op \in ArithOps :
          program = ProgArith(Operands[i], op, Operands[j])
    /\ Constructed

ArithNext ==
    \/ EvalStart \/ EvalFinish \/ EvalFail \/ PropagateErr
    \/ EvalBlock \/ EvalStatementExpr \/ EvalLiteralScalar \/ EvalExprBinaryOp

SpecArith == ArithInit /\ [][ArithNext]_vars

-----------------------------------------------------------------------------
(* Properties of the evaluator.                                            *)

IsCallFrame(c) == c.h = "call"
IsForFrame(c) == c.h = "eval_statement" /\ c.statement.k = "For"
\* Runtime::call has just been entered by the innermost invocation.
CallEntered == Running("call") /\ Top.pc = "start" /\ ret.st = "none"

Staged(values) == [i \in 1..Len(values) |-> <<i - 1, values[i]>>]

\* C1: when Runtime::call is entered from a Call expression whose n arguments
\* all evaluated Regular, the pending-argument buffer is exactly
\* (0,v0), .., (n-1,v(n-1)), and the body of a user function starts with vi in
\* slot i of its frame - whatever the nesting of calls.
C1_BufferHoldsExactlyTheCallsArguments ==
    /\ (CallEntered /\ Top.origin = "Call") => arguments = Staged(Top.argvals)
    /\ (/\ Running("eval_block") /\ Top.pc = "start" /\ Len(kont) >= 2
        /\ IsCallFrame(kont[Len(kont) - 1]) /\ kont[Len(kont) - 1].origin = "Call")
       => \A i \in 1..Len(kont[Len(kont) - 1].argvals) :
             /\ InFrame(stack, i - 1)
             /\ StackFetch(stack, cells, i - 1) = kont[Len(kont) - 1].argvals[i]

\* The caller of Runtime::call has just been handed its Ok.
CallReturnedOk ==
    /\ status = "running" /\ kont # <<>> /\ ret.st = "ok"
    /\ \/ Top.h = "eval_expr" /\ Top.expr.k = "Call" /\ Top.pc = "call"
       \/ IsForFrame(Top) /\ Top.pc = "iter"
\* Runtime::call is returning an Err, its own or one of its callee's.
CallReturnsErr == Running("call") /\ ret.st = "err"

\* C2: the stack depth when Runtime::call returns - Ok or Err - is the depth
\* at which it was entered.
C2_CallRestoresStackDepth ==
    /\ CallReturnedOk => Depth(stack) = Top.depth0
    /\ CallReturnsErr => Depth(stack) = Top.depth0

\* C3: whenever Runtime::eval returns Ok, the slot stack and the
\* pending-argument buffer are empty.
C3_OkLeavesStackAndBufferEmpty ==
    status = "ok" => (stack = <<>> /\ arguments = <<>>)

\* A run that returned Ok although statements ran while arguments were pending
\* and although it opened call frames.
C3_Witness ==
    status = "ok" /\ boundaryDirty /\ Len(cells) > program.root_slots

\* C4: a Call of n arguments on a user function of p parameters faults
\* MissingParameters if and only if n # p: it runs the body only if n = p, and
\* the call itself raises MissingParameters only if n # p.
C4_MissingParametersIffArityDiffers ==
    \A i \in 1..Len(kont) :
        (IsCallFrame(kont[i]) /\ kont[i].origin = "Call" /\ heap[kont[i].function].k = "Hush")
        => /\ kont[i].pc = "body" => Len(kont[i].argvals) = heap[kont[i].function].params
           /\ (/\ i = Len(kont) /\ kont[i].pc = "start" /\ ret.st = "err"
               /\ ret.panic.kind = "MissingParameters")
              => Len(kont[i].argvals) # heap[kont[i].function].params

\* C5: in a run that does not panic, the pending-argument buffer is empty each
\* time eval_statement is entered and each time it returns.
C5_BufferEmptyAtStatementBoundaries ==
    status = "ok" => ~boundaryDirty

-----------------------------------------------------------------------------
(* Closures.                                                               *)

\* The frame of the slot stack opened by the user call kont[i]: the root frame
\* is the first, and each user call that has reached its body holds one.
RECURSIVE BodiesUpTo(_)
BodiesUpTo(i) ==
    IF i = 0 THEN 0
    ELSE BodiesUpTo(i - 1) + (IF IsCallFrame(kont[i]) /\ kont[i].pc = "body" THEN 1 ELSE 0)

ResultElems == heap[result.value.n].elems
Ints(values) == [i \in 1..Len(values) |-> ValueInt(values[i])]

\* C9: a closure captures the slot cell, not its value.  While an invocation
\* of a closure runs, slot `to` of its frame is the very cell captured from
\* slot `from` of the defining frame, so writes on either side are seen on the
\* other, also once the defining frame is gone: the counter returned by mk()
\* yields 1, 2, 3; a closure over a root variable sees the root's later write
\* and the root sees the closure's; two closures over one cell share it.
C9_CaptureSharesTheCell ==
    /\ \A i \in 1..Len(kont) :
          (IsCallFrame(kont[i]) /\ kont[i].pc = "body")
          => LET context == heap[kont[i].function].context
             IN  \A c \in 1..Len(context) :
                    stack[1 + BodiesUpTo(i)][context[c][2] + 1] = context[c][1]
    /\ (status # "running" /\ program = ProgCounter)
       => (status = "ok" /\ ResultElems = Ints(<<1, 2, 3>>))
    /\ (status # "running" /\ program = ProgShared)
       => (status = "ok" /\ ResultElems = Ints(<<1, 6, 6>>))
    /\ (status # "running" /\ program = ProgTwoClosures)
       => (status = "ok" /\ result.value = ValueInt(2))

\* The counter closure has been called three times after mk's frame was shrunk.
C9_Witness ==
    status = "ok" /\ program = ProgCounter /\ ResultElems = Ints(<<1, 2, 3>>)

-----------------------------------------------------------------------------
(* The For protocol.                                                       *)

\* C10: For calls its iterator with zero arguments and no receiver; it has
\* made one more call than it has begun body runs whenever a call returns, and
\* as many when a body runs; a body run starts with the loop slot holding the
\* `value` of the result that started it; a finished loop yields Regular(Nil).
C10_ForIteratesOverTheIterator ==
    /\ (CallEntered /\ Top.origin = "For") => (arguments = <<>> /\ Top.obj = None)
    /\ \A i \in 1..Len(kont) :
          IsForFrame(kont[i])
          => /\ kont[i].pc = "iter" => kont[i].calls = kont[i].bodies + 1
             /\ kont[i].pc = "block" => kont[i].calls = kont[i].bodies
             /\ Len(kont[i].seen) = kont[i].bodies
             /\ (kont[i].pc = "block" /\ i + 1 = Len(kont) /\ Top.pc = "start")
                => StackFetch(stack, cells, kont[i].statement.slot_ix)
                     = kont[i].seen[kont[i].bodies]
    /\ (status # "running" /\ program = ProgForUser(2))
       => (status = "ok" /\ result.value = ValueInt(3))

-----------------------------------------------------------------------------
(* Arithmetic, on the runs of SpecArith: `l op r` on two literals.         *)

ArithExpr == program.statements[1].expr
Finished == status # "running"
Faulted(kind) == status = "err" /\ result.panic.kind = kind

\* The mathematical result of an integer operation (division truncates).
Exact(op, a, b) ==
    CASE op = "Plus" -> a + b
      [] op = "Minus" -> a - b
      [] op = "Times" -> a * b
      [] op = "Div" -> TruncDiv(a, b)
      [] op = "Mod" -> TruncRem(a, b)

\* C6: Int op Int faults DivisionByZero exactly when op is / or % and the right
\* operand is 0, faults IntegerOverflow exactly when the result is not
\* representable (INT_MIN / -1 and INT_MIN % -1 included), and otherwise
\* yields the exact Int.
C6_IntArithmeticIsChecked ==
    (Finished /\ ArithExpr.left.literal.l = "Int" /\ ArithExpr.right.literal.l = "Int")
    => LET a == ArithExpr.left.literal.int
           b == ArithExpr.right.literal.int
           op == ArithExpr.op
       IN  IF op \in {"Div", "Mod"} /\ b = 0 THEN Faulted("DivisionByZero")
           ELSE IF ~InRange(Exact(op, a, b)) \/ (op = "Mod" /\ a = IntMin /\ b = -1)
                THEN Faulted("IntegerOverflow")
           ELSE status = "ok" /\ result.value = ValueInt(Exact(op, a, b))

Promoted(literal) ==
    IF literal.l = "Int" THEN FloatFromInt(literal.int) ELSE ValueFloat(literal.n, literal.d)

\* C7: with one Int and one Float operand the result is Float(L op R), L and R
\* being the left and right operands in source order, the Int one promoted.
C7_MixedOperandsKeepTheirOrder ==
    (/\ Finished
     /\ {ArithExpr.left.literal.l, ArithExpr.right.literal.l} = {"Int", "Float"})
    => /\ status = "ok"
       /\ result.value = FloatOp(ArithExpr.op, Promoted(ArithExpr.left.literal),
                                 Promoted(ArithExpr.right.literal))

\* C8: an arithmetic operator that faults InvalidOperand carries a non-numeric
\* operand: the left one if it is non-numeric, otherwise the right one.
C8_InvalidOperandIsNonNumeric ==
    Faulted("InvalidOperand")
    => LET left == LiteralValue(ArithExpr.left.literal)
           right == LiteralValue(ArithExpr.right.literal)
       IN  /\ ~IsNumeric(result.panic.value)
           /\ result.panic.value = (IF ~IsNumeric(left) THEN left ELSE right)

-----------------------------------------------------------------------------
(* Short-circuit operators.                                                *)

\* The root frame's slot, while the root frame is on the stack.
RootSlot(slot_ix) == cells[stack[1][slot_ix + 1]]

\* C11: `l and r` / `l or r`.  The right operand is under evaluation only
\* when l is a Bool that does not decide the result.  On the programs
\* r = <l> <op> f(), where f counts its runs in x: if l is not a Bool the run
\* faults InvalidOperand(l) and f never ran; if l decides, the result is l and
\* f never ran; otherwise f ran exactly once and the result is what f
\* returned if that is a Bool, the fault InvalidOperand(that value) if it is
\* not, and f's own fault if it faulted.
C11_AndOrShortCircuit ==
    /\ \A i \in 1..Len(kont) :
          (/\ kont[i].h = "eval_expr" /\ kont[i].expr.k = "BinaryOp"
           /\ kont[i].expr.op \in {"And", "Or"} /\ kont[i].pc = "right_bool")
          => /\ kont[i].left.t = "Bool"
             /\ kont[i].left # ValueBool(kont[i].expr.op = "Or")
    /\ \A l \in 1..Len(ShortLefts), t \in 1..Len(ShortTails) : \A op \in {"And", "Or"} :
          (program = ProgShort(l, op, t) /\ status # "running")
          => LET left == LiteralValue(ShortLefts[l].literal)
                 tail == ShortTails[t][1]
             IN  IF left.t # "Bool"
                 THEN /\ Faulted("InvalidOperand") /\ result.panic.value = left
                      /\ RootSlot(1) = ValueInt(0)
                 ELSE IF left = ValueBool(op = "Or")
                 THEN status = "ok" /\ ResultElems = <<left, ValueInt(0)>>
                 ELSE IF tail.k # "Return"
                 THEN Faulted("DivisionByZero") /\ RootSlot(1) = ValueInt(1)
                 ELSE LET right == LiteralValue(tail.expr.literal)
                      IN  IF right.t = "Bool"
                          THEN status = "ok" /\ ResultElems = <<right, ValueInt(1)>>
                          ELSE /\ Faulted("InvalidOperand") /\ result.panic.value = right
                               /\ RootSlot(1) = ValueInt(1)

\* `false and f()` with an f that would fault: Bool(false), f never ran.
C11_Witness ==
    /\ status = "ok" /\ program = ProgShort(2, "And", 4)
    /\ ResultElems = <<ValueBool(FALSE), ValueInt(0)>>

-----------------------------------------------------------------------------
(* The receiver.                                                           *)

\* The body of the user call kont[i] is about to run its first statement.
BodyStarts(i) ==
    /\ IsCallFrame(kont[i]) /\ kont[i].pc = "body"
    /\ i + 1 = Len(kont) /\ Top.pc = "start" /\ ret.st = "none"

\* C12: when the body of a function with a self slot starts, that slot holds
\* the object of the callee's own Access (here a variable of the caller's
\* frame) if the callee expression of the Call is an Access, and was not
\* written (Nil) for every other callee expression and for For's calls of
\* its iterator - whatever Access or Call the arguments contain.  So
\* obj.m(..) returns obj from `return self`, and m(..), (if ..)(..) and
\* (call result)(..) return Nil.
C12_SelfIsTheCalleesObject ==
    /\ \A i \in 1..Len(kont) :
          (BodyStarts(i) /\ IsSome(heap[kont[i].function].frame_info.self_slot))
          => LET self == StackFetch(stack, cells,
                                    Unwrap(heap[kont[i].function].frame_info.self_slot))
                 callee == kont[i - 1].expr.function
             IN  IF kont[i].origin = "For" THEN self = ValueNil /\ kont[i].obj = None
                 ELSE IF callee.k = "Access"
                 THEN callee.object.k = "Identifier"
                      => self = cells[stack[Len(stack) - 1][callee.object.slot_ix + 1]]
                 ELSE self = ValueNil
    /\ \A c \in 1..Len(SelfCallees), a \in 1..Len(SelfArgs) :
          (program = ProgSelf(c, a) /\ status # "running")
          => /\ status = "ok"
             /\ result.value = (IF SelfCallees[c].k = "Access" THEN cells[3] ELSE ValueNil)

\* obj.m(other.m(1)) returned obj.
C12_Witness ==
    /\ status = "ok" /\ program = ProgSelf(1, 2)
    /\ result.value = cells[3] /\ result.value.t = "Dict" /\ cells[3] # cells[4]

-----------------------------------------------------------------------------
(* Shared containers.                                                      *)

\* C13: arrays and dicts are shared.  After b = a, after passing b to a
\* function and after capturing a, an element assigned through one handle is
\* what a read through the other returns, and a == b; a dict aliased by e = d
\* shows both handles every insertion; a scalar copied by y = x is
\* independent of x.
C13_ContainersAreShared ==
    /\ (program = ProgAlias /\ status # "running")
       => /\ status = "ok"
          /\ ResultElems = Ints(<<3, 4, 5, 5, 6, 6>>) \o <<ValueBool(TRUE)>>
    /\ (program = ProgAliasDict /\ status # "running")
       => /\ status = "ok"
          /\ ResultElems = Ints(<<2, 3>>) \o <<ValueBool(FALSE)>>
    /\ (program = ProgScalarCopy /\ status # "running")
       => (status = "ok" /\ ResultElems = Ints(<<3, 2>>))

\* The aliased array has been written through b, a, an argument and a capture.
C13_Witness ==
    /\ status = "ok" /\ program = ProgAlias
    /\ ResultElems[3] = ValueInt(5) /\ ResultElems[6] = ValueInt(6)

-----------------------------------------------------------------------------
(* Return.                                                                 *)

\* C14: a Return inside a function body ends that invocation only.  What
\* Runtime::call hands its caller is never a Return flow: the Call expression
\* gets the returned value as a Regular one, and the caller's block goes on.
\* In a program whose returns are all inside functions the top-level block
\* never ends with a Return, and the statements after each call run.
C14_ReturnStopsAtTheCall ==
    /\ CallReturnedOk => ret.flow = "Regular"
    /\ (program = ProgReturn /\ Running("eval") /\ ret.st = "ok") => ret.flow = "Regular"
    /\ (program = ProgReturn /\ status # "running")
       => (status = "ok" /\ ResultElems = Ints(<<4, 2, 5>>))

\* The calls of f and g returned through `return`, from a loop too, and the
\* statements after them ran.
C14_Witness ==
    status = "ok" /\ program = ProgReturn /\ ResultElems = Ints(<<4, 2, 5>>)

-----------------------------------------------------------------------------
(* The buffer at the end of a call.                                        *)

\* C15: the pending-argument buffer is empty when Runtime::call returns, with
\* an Ok or with an Err (its own or one raised in the body or by the host
\* callable), and it is empty when the body of a user function starts.
C15_BufferEmptyWhenCallReturns ==
    /\ CallReturnedOk => arguments = <<>>
    /\ CallReturnsErr => arguments = <<>>
    /\ \A i \in 1..Len(kont) : BodyStarts(i) => arguments = <<>>

-----------------------------------------------------------------------------
(* Panics.                                                                 *)

\* A step taken while an Err is being returned: it writes no slot, container
\* or buffer, starts no evaluation, and hands the same panic on, to the
\* caller or as the result of Runtime::eval.
Unwinds ==
    /\ UNCHANGED <<stack, cells, heap, arguments, hostCalls>>
    /\ Len(kont') < Len(kont)
    /\ \/ status' = "running" /\ ret' = ret
       \/ status' = "err" /\ result'.panic = ret.panic

\* C16: panics are never recovered.  From the moment an Err is raised every
\* step only unwinds, up to Runtime::eval returning Err of that very panic;
\* so the fault of `nil + 1` in a loop of f is the result of the run, and none
\* of the assignments after it - in the loop, in f, at the top level - ran.
C16_PanicsAreNeverRecovered ==
    /\ [][(status = "running" /\ ret.st = "err") => Unwinds]_vars
    /\ []((program = ProgPanicThen /\ status # "running")
          => /\ status = "err"
             /\ result.panic = Panic("InvalidOperand", ValueNil)
             /\ RootSlot(1) = ValueInt(0))

\* The run of ProgPanicThen has ended with the fault raised inside f.
C16_Witness ==
    /\ status = "err" /\ program = ProgPanicThen
    /\ result.panic = Panic("InvalidOperand", ValueNil) /\ Depth(stack) > program.root_slots

-----------------------------------------------------------------------------
(* Blocks.                                                                 *)

\* A step of eval_block: it starts with its first statement and runs them one
\* after the other; handed a flow that is not Regular it returns that flow;
\* handed the Regular value of its last statement it returns it; an empty
\* block returns Regular(Nil).
BlockStep ==
    LET f == Top
        started == Len(kont') = Len(kont) + 1
    IN  /\ f.pc = "start" => f.next = 1
        /\ IF f.pc = "statement" /\ ret.flow # "Regular"
           THEN kont' = Popped /\ ret' = RetOk(ret.flow, ret.value, None)
           ELSE IF f.next <= Len(f.block)
           THEN /\ started
                /\ kont'[Len(kont)].next = f.next + 1
                /\ kont'[Len(kont')].h = "eval_statement"
                /\ kont'[Len(kont')].statement = f.block[f.next]
                /\ kont'[Len(kont')].pc = "start"
           ELSE /\ kont' = Popped
                /\ ret' = Regular(IF f.pc = "start" THEN ValueNil ELSE ret.value)

\* What a run that returned Ok must have returned, where the last top-level
\* statement tells: Nil for no statement and after an Assign, a While or a
\* For, the literal for a literal expression.
LastTells ==
    LET n == Len(program.statements)
        last == program.statements[n]
    IN  IF n = 0 \/ last.k \in {"Assign", "While", "For"} THEN result.value = ValueNil
        ELSE IF last.k = "Expr" /\ last.expr.k = "Literal" /\ last.expr.literal.l = "Int"
        THEN result.value = LiteralValue(last.expr.literal)
        ELSE TRUE

\* C17: eval_block runs its statements in order, stops at the first whose
\* flow is not Regular and returns that flow, and otherwise returns the
\* Regular value of the last statement (Nil for an empty block); the result
\* of a program is the value of its last top-level statement, Nil after an
\* Assign, a While or a For.
C17_BlockRunsInOrderAndYieldsTheLast ==
    /\ [][(Running("eval_block") /\ ret.st # "err") => BlockStep]_vars
    /\ [](status = "ok" => LastTells)
    /\ [](\A n \in 1..Len(LastStatements) :
            (program = ProgLast(n) /\ status # "running")
            => (status = "ok" /\ result.value = (IF n = 6 THEN ValueInt(3) ELSE ValueNil)))
    /\ []((program = ProgStops /\ status # "running")
          => (status = "ok" /\ ResultElems = Ints(<<5, 3>>)))

\* f returned at its second statement and the loop broke at its second.
C17_Witness ==
    status = "ok" /\ program = ProgStops /\ ResultElems = Ints(<<5, 3>>)

-----------------------------------------------------------------------------
(* Break.                                                                  *)

\* C18: the flow a While or a For hands its enclosing block is Regular(Nil)
\* or Return(v), never Break, also when the Break comes from the loop's
\* condition or iterator expression: such a Break ends that loop only, and
\* the enclosing loop goes on to i = 1.
C18_LoopsNeverYieldBreak ==
    /\ (/\ Running("eval_block") /\ Top.pc = "statement" /\ ret.st = "ok"
        /\ Top.block[Top.next - 1].k \in {"While", "For"})
       => /\ ret.flow \in {"Regular", "Return"}
          /\ ret.flow = "Regular" => ret.value = ValueNil
    /\ \A n \in 1..Len(BreakingLoops) :
          (program = ProgBreakInLoopHead(n) /\ status # "running")
          => (status = "ok" /\ result.value = ValueInt(1))

-----------------------------------------------------------------------------
(* Assignment to an array element.                                         *)

\* C19: on an array of length 3, a[i] = 5 faults IndexOutOfBounds(Int(i)) if
\* and only if i < 0 or i >= 3, leaving the array as it was; otherwise the
\* assignment yields Regular(Nil), and a read through the other handle b
\* returns 5 at i and the old elements elsewhere.
C19_ArrayAssignIsBoundsChecked ==
    \A n \in 1..Len(AssignIndexes) :
        LET ix == AssignIndexes[n]
            old == Ints(<<1, 2, 3>>)
        IN  program = ProgArrayAssign(ix)
            => /\ status # "running"
                  => IF ix < 0 \/ ix >= Len(old)
                     THEN /\ Faulted("IndexOutOfBounds")
                          /\ result.panic.value = ValueInt(ix)
                          /\ heap[RootSlot(1).n].elems = old
                          /\ RootSlot(2) = RootSlot(1)
                     ELSE /\ status = "ok"
                          /\ ResultElems = [old EXCEPT ![ix + 1] = ValueInt(5)]
               /\ (/\ Running("eval_block") /\ Len(kont) = 2 /\ Top.pc = "statement"
                   /\ Top.next = 4 /\ ret.st = "ok")
                  => ret = Regular(ValueNil)

\* a[-1] = 5 has faulted and left the array as it was.
C19_Witness ==
    /\ status = "err" /\ program = ProgArrayAssign(-1)
    /\ result.panic = Panic("IndexOutOfBounds", ValueInt(-1))
    /\ heap[RootSlot(1).n].elems = Ints(<<1, 2, 3>>)

-----------------------------------------------------------------------------
(* The depth of the stack.                                                 *)

\* C20: the stack never holds more than MaxStackDepth cells.  A user call
\* runs its body only if its frame fits, and a call faults StackOverflow only
\* if its frame does not fit, before it has opened it; on a full stack the
\* call of a user function faults without running the body, and so does the
\* call of a host callable with one argument.  A function that calls itself
\* unconditionally makes the run end with Err(StackOverflow).
C20_StackOverflowBoundsTheRecursion ==
    /\ [](Depth(stack) <= MaxStackDepth)
    /\ [](\A i \in 1..Len(kont) :
            (IsCallFrame(kont[i]) /\ kont[i].pc = "body")
            => kont[i].depth0 + heap[kont[i].function].frame_info.slots <= MaxStackDepth)
    /\ []((/\ Running("call") /\ Top.pc = "start" /\ ret.st = "err"
           /\ ret.panic.kind = "StackOverflow")
          => /\ Depth(stack) = Top.depth0
             /\ heap[Top.function].k = "Hush"
                => Top.depth0 + heap[Top.function].frame_info.slots > MaxStackDepth)
    /\ []((program = ProgUserOverflow /\ status # "running")
          => /\ Faulted("StackOverflow")
             /\ RootSlot(1).t = "Function" /\ Depth(stack) = MaxStackDepth)
    /\ []((program = ProgHostOverflow /\ status # "running")
          => (Faulted("StackOverflow") /\ Depth(stack) = MaxStackDepth))
    /\ (program = ProgRecursion) ~> Faulted("StackOverflow")

\* The unconditional recursion has filled the stack and ended in StackOverflow.
C20_Witness ==
    /\ status = "err" /\ program = ProgRecursion
    /\ result.panic.kind = "StackOverflow" /\ Depth(stack) = MaxStackDepth

=============================================================================
